---- MODULE Spec2Model ----
(***************************************************************************)
(* Model of aws-backend/main.go: the two gin handlers handleUpload (POST   *)
(* /upload) and showLibrary (GET /library) running against one S3 bucket.  *)
(* Strings are sequences of one-character strings, so that concatenation,  *)
(* prefix and suffix are computed as the Go code computes them.            *)
(***************************************************************************)
EXTENDS Integers, Sequences, FiniteSets, TLC

\* ------------------------------------------------------------------ bounds
\* The bucket accepts a write to a new key only while it holds fewer objects.
MaxObjects == 2

\* --------------------------------------------------------- string helpers
\* strings.HasPrefix, as S3 applies it to the Prefix of ListObjectsV2
HasPrefix(s, p) == Len(s) >= Len(p) /\ SubSeq(s, 1, Len(p)) = p

HasSuffix(s, p) == Len(s) >= Len(p) /\ SubSeq(s, Len(s) - Len(p) + 1, Len(s)) = p

\* number of "/" characters at the end of s
RECURSIVE TrailingSeparators(_)
TrailingSeparators(s) ==
  IF s = <<>> \/ s[Len(s)] # "/" THEN 0
  ELSE 1 + TrailingSeparators(SubSeq(s, 1, Len(s) - 1))

\* ------------------------------------------------------ program constants
bucketName == <<"b", "o", "o", "k", "s", "-", "u", "p", "l", "o", "a", "d", "e", "d">>

\* "https://" + bucketName + ".s3.amazonaws.com/"
NamespaceRoot ==
  <<"h", "t", "t", "p", "s", ":", "/", "/">> \o bucketName \o
  <<".", "s", "3", ".", "a", "m", "a", "z", "o", "n", "a", "w", "s", ".", "c", "o", "m", "/">>

UsersPrefix == <<"u", "s", "e", "r", "s", "/">>

\* ------------------------------------------------------------ input sets
\* values of the s3_path form field (<<>> is the empty or absent field)
Folders ==
  { <<>>,
    <<"a", "/", "/">>,
    UsersPrefix \o <<"4">>,
    UsersPrefix \o <<"4", "/">>,
    UsersPrefix \o <<"4", "2">>,
    UsersPrefix \o <<"4", "/", "2">> }

\* file.Filename of the "pdf" part
Filenames == { <<"x">>, <<"y">> }

\* the part's content
Bodies == { 1, 2 }

\* values of the userId query parameter (<<>> is the empty or absent one)
OwnerIds == { <<>>, <<"4">>, <<"4", "2">>, <<"4", "/", "2">> }

\* --------------------------------------------------------- pure functions
\* "Ensure folder ends with slash"
NormalizeFolder_Always(s3Folder) == s3Folder \o <<"/">>

NormalizeFolder_Strip(s3Folder) ==
  SubSeq(s3Folder, 1, Len(s3Folder) - TrailingSeparators(s3Folder)) \o <<"/">>

NormalizeFolder(s3Folder) ==
  IF SubSeq(s3Folder, Len(s3Folder), Len(s3Folder)) # <<"/">>
  THEN s3Folder \o <<"/">>
  ELSE s3Folder

\* s3Key := s3Folder + file.Filename
BuildKey(s3Folder, filename) == s3Folder \o filename

\* "https://" + bucketName + ".s3.amazonaws.com/" + key
ObjectURL_NoRoot(key) == key

ObjectURL(key) == NamespaceRoot \o key

ThumbnailURL(key) ==
  NamespaceRoot \o <<"t", "h", "u", "m", "b", "n", "a", "i", "l", "s", "/">> \o key \o
  <<".", "j", "p", "g">>

\* Prefix: aws.String("users/" + userId + "/")
BuildListPrefix_NoSlash(userId) == UsersPrefix \o userId

BuildListPrefix(userId) == UsersPrefix \o userId \o <<"/">>

\* one element of books
LibraryEntry(resp, i) ==
  [url |-> ObjectURL(resp[i]), thumbnail |-> ThumbnailURL(resp[i]), name |-> resp[i]]

\* the Go slice built by "var books []map[string]string" and the append loop:
\* a nil slice stays nil when the loop body never runs
BuildBooks(resp) ==
  [isNil |-> (Len(resp) = 0), elems |-> [i \in 1..Len(resp) |-> LibraryEntry(resp, i)]]

\* encoding/json as c.JSON applies it to a slice: nil encodes as null,
\* a non-nil slice as an array
MarshalSlice(slice) ==
  IF slice.isNil THEN [null |-> TRUE, array |-> <<>>]
  ELSE [null |-> FALSE, array |-> slice.elems]

\* ------------------------------------------------------- backend helpers
\* all orders in which a set of keys can be returned
Orderings(S) ==
  { q \in [1..Cardinality(S) -> S] : \A i, j \in 1..Cardinality(S) : i # j => q[i] # q[j] }

\* the keys of the bucket that ListObjectsV2 selects for a prefix
Matching(objects, prefix) == { k \in DOMAIN objects : HasPrefix(k, prefix) }

\* PutObject: create or overwrite the object at key
PutObject(objects, key, body) ==
  [k \in DOMAIN objects \cup {key} |-> IF k = key THEN body ELSE objects[k]]

NoResponse == [status |-> 0, error |-> "", fields |-> {}, pdf_url |-> <<>>, pdf_name |-> <<>>]

NoListResponse ==
  [status |-> 0, error |-> "", fields |-> {}, books |-> [null |-> TRUE, array |-> <<>>]]

\* ------------------------------------------------------------------ state
VARIABLES
  store,        \* the bucket: key -> content
  upc,          \* position of the handleUpload request
  hasFile,      \* the request carries a "pdf" part
  filename,     \* file.Filename
  s3_path,      \* the s3_path form field
  content,      \* the bytes of the part
  s3Folder,     \* local s3Folder
  s3Key,        \* local s3Key
  opens,        \* successful file.Open() calls of the request
  closes,       \* f.Close() calls of the request
  uploadCalls,  \* uploader.Upload calls of the request
  putKey,       \* Key of the PutObjectInput handed to uploader.Upload
  upResp,       \* what c.JSON wrote for the upload
  lpc,          \* position of the showLibrary request
  userId,       \* the userId query parameter
  listCalls,    \* ListObjectsV2 calls of the request
  listPrefix,   \* the Prefix passed to ListObjectsV2
  contents,     \* resp.Contents, the keys in backend order
  lsResp        \* what c.JSON wrote for the listing

upVars == <<upc, hasFile, filename, s3_path, content, s3Folder, s3Key, opens, closes,
            uploadCalls, putKey, upResp>>

lsVars == <<lpc, userId, listCalls, listPrefix, contents, lsResp>>

vars == <<store, upVars, lsVars>>

Init ==
  /\ store = <<>>
  /\ upc = "idle" /\ hasFile = FALSE /\ filename = <<>> /\ s3_path = <<>> /\ content = 1
  /\ s3Folder = <<>> /\ s3Key = <<>> /\ opens = 0 /\ closes = 0 /\ uploadCalls = 0
  /\ putKey = <<>> /\ upResp = NoResponse
  /\ lpc = "idle" /\ userId = <<>> /\ listCalls = 0 /\ listPrefix = <<>>
  /\ contents = <<>>
  /\ lsResp = NoListResponse

\* ----------------------------------------------------------- handleUpload
\* gin dispatches POST /upload
ReceiveUpload ==
  /\ upc \in {"idle", "done"}
  /\ \E hf \in BOOLEAN, fn \in Filenames, p \in Folders, b \in Bodies :
       /\ hasFile' = hf
       /\ filename' = IF hf THEN fn ELSE <<>>
       /\ content' = IF hf THEN b ELSE 1
       /\ s3_path' = p
  /\ upc' = "validate"
  /\ s3Folder' = <<>> /\ s3Key' = <<>> /\ opens' = 0 /\ closes' = 0 /\ uploadCalls' = 0
  /\ putKey' = <<>> /\ upResp' = NoResponse
  /\ UNCHANGED <<store, lsVars>>

BadRequest(msg) ==
  [status |-> 400, error |-> msg, fields |-> {"error"}, pdf_url |-> <<>>, pdf_name |-> <<>>]

\* c.FormFile("pdf"), c.PostForm("s3_path") and the trailing slash
HandleUploadValidate_FolderFirst ==
  /\ upc = "validate"
  /\ IF s3_path = <<>>
     THEN /\ upResp' = BadRequest("Missing s3_path")
          /\ upc' = "done"
          /\ UNCHANGED s3Folder
     ELSE IF ~hasFile
     THEN /\ upResp' = BadRequest("Failed to upload file")
          /\ upc' = "done"
          /\ UNCHANGED s3Folder
     ELSE /\ s3Folder' = NormalizeFolder(s3_path)
          /\ upc' = "open"
          /\ UNCHANGED upResp
  /\ UNCHANGED <<store, hasFile, filename, s3_path, content, s3Key, opens, closes,
                 uploadCalls, putKey, lsVars>>

HandleUploadValidate ==
  /\ upc = "validate"
  /\ IF ~hasFile
     THEN /\ upResp' = BadRequest("Failed to upload file")
          /\ upc' = "done"
          /\ UNCHANGED s3Folder
     ELSE IF s3_path = <<>>
     THEN /\ upResp' = BadRequest("Missing s3_path")
          /\ upc' = "done"
          /\ UNCHANGED s3Folder
     ELSE /\ s3Folder' = NormalizeFolder(s3_path)
          /\ upc' = "open"
          /\ UNCHANGED upResp
  /\ UNCHANGED <<store, hasFile, filename, s3_path, content, s3Key, opens, closes,
                 uploadCalls, putKey, lsVars>>

\* file.Open() fails
HandleUploadOpenFails ==
  /\ upc = "open"
  /\ upResp' = BadRequest("Failed to open file")
  /\ upc' = "done"
  /\ UNCHANGED <<store, hasFile, filename, s3_path, content, s3Folder, s3Key, opens, closes,
                 uploadCalls, putKey, lsVars>>

\* file.Open() succeeds, defer f.Close() is registered, the key is built
HandleUploadOpen ==
  /\ upc = "open"
  /\ opens' = opens + 1
  /\ s3Key' = BuildKey(s3Folder, filename)
  /\ upc' = "upload"
  /\ UNCHANGED <<store, hasFile, filename, s3_path, content, s3Folder, closes,
                 uploadCalls, putKey, upResp, lsVars>>

\* uploader.Upload returns an error: 500, then the deferred f.Close()
HandleUploadStoreFails_Retry ==
  /\ upc = "upload"
  /\ uploadCalls' = uploadCalls + 2
  /\ putKey' = s3Key
  /\ upResp' = [status |-> 500, error |-> "Failed to upload file", fields |-> {"error"},
                pdf_url |-> <<>>, pdf_name |-> <<>>]
  /\ closes' = closes + 1
  /\ upc' = "done"
  /\ UNCHANGED <<store, hasFile, filename, s3_path, content, s3Folder, s3Key, opens, lsVars>>

HandleUploadStoreFails ==
  /\ upc = "upload"
  /\ uploadCalls' = uploadCalls + 1
  /\ putKey' = s3Key
  /\ upResp' = [status |-> 500, error |-> "Failed to upload file", fields |-> {"error"},
                pdf_url |-> <<>>, pdf_name |-> <<>>]
  /\ closes' = closes + 1
  /\ upc' = "done"
  /\ UNCHANGED <<store, hasFile, filename, s3_path, content, s3Folder, s3Key, opens, lsVars>>

\* uploader.Upload stores the object: 200 with pdf_url and pdf_name, then the
\* deferred f.Close()
HandleUploadStored_NoClose ==
  /\ upc = "upload"
  /\ s3Key \in DOMAIN store \/ Cardinality(DOMAIN store) < MaxObjects
  /\ uploadCalls' = uploadCalls + 1
  /\ putKey' = s3Key
  /\ store' = PutObject(store, s3Key, content)
  /\ upResp' = [status |-> 200, error |-> "", fields |-> {"pdf_url", "pdf_name"},
                pdf_url |-> ObjectURL(s3Key), pdf_name |-> filename]
  /\ UNCHANGED closes
  /\ upc' = "done"
  /\ UNCHANGED <<hasFile, filename, s3_path, content, s3Folder, s3Key, opens, lsVars>>

HandleUploadStored ==
  /\ upc = "upload"
  /\ s3Key \in DOMAIN store \/ Cardinality(DOMAIN store) < MaxObjects
  /\ uploadCalls' = uploadCalls + 1
  /\ putKey' = s3Key
  /\ store' = PutObject(store, s3Key, content)
  /\ upResp' = [status |-> 200, error |-> "", fields |-> {"pdf_url", "pdf_name"},
                pdf_url |-> ObjectURL(s3Key), pdf_name |-> filename]
  /\ closes' = closes + 1
  /\ upc' = "done"
  /\ UNCHANGED <<hasFile, filename, s3_path, content, s3Folder, s3Key, opens, lsVars>>

\* ------------------------------------------------------------ showLibrary
\* gin dispatches GET /library
ReceiveList ==
  /\ lpc \in {"idle", "done"}
  /\ \E u \in OwnerIds : userId' = u
  /\ lpc' = "validate"
  /\ listCalls' = 0 /\ listPrefix' = <<>> /\ contents' = <<>>
  /\ lsResp' = NoListResponse
  /\ UNCHANGED <<store, upVars>>

\* c.Query("userId") and the empty check
ShowLibraryValidate_NoCheck ==
  /\ lpc = "validate"
  /\ lpc' = "list"
  /\ UNCHANGED <<store, upVars, userId, listCalls, listPrefix, contents, lsResp>>

ShowLibraryValidate ==
  /\ lpc = "validate"
  /\ IF userId = <<>>
     THEN /\ lsResp' = [status |-> 400, error |-> "Missing userId", fields |-> {"error"},
                        books |-> [null |-> TRUE, array |-> <<>>]]
          /\ lpc' = "done"
     ELSE /\ lpc' = "list"
          /\ UNCHANGED lsResp
  /\ UNCHANGED <<store, upVars, userId, listCalls, listPrefix, contents>>

\* s3Client.ListObjectsV2 returns an error
ShowLibraryListFails ==
  /\ lpc = "list"
  /\ listCalls' = listCalls + 1
  /\ listPrefix' = BuildListPrefix(userId)
  /\ lsResp' = [status |-> 500, error |-> "Failed to load library", fields |-> {"error"},
                books |-> [null |-> TRUE, array |-> <<>>]]
  /\ lpc' = "done"
  /\ UNCHANGED <<store, upVars, userId, contents>>

\* s3Client.ListObjectsV2 returns the keys under the prefix, the loop builds
\* books and c.JSON writes it
ShowLibraryListed ==
  /\ lpc = "list"
  /\ listCalls' = listCalls + 1
  /\ listPrefix' = BuildListPrefix(userId)
  /\ \E resp \in Orderings(Matching(store, listPrefix')) :
       /\ contents' = resp
       /\ lsResp' = [status |-> 200, error |-> "", fields |-> {"books"},
                     books |-> MarshalSlice(BuildBooks(resp))]
  /\ lpc' = "done"
  /\ UNCHANGED <<store, upVars, userId>>

Next ==
  \/ ReceiveUpload
  \/ HandleUploadValidate
  \/ HandleUploadOpenFails
  \/ HandleUploadOpen
  \/ HandleUploadStoreFails
  \/ HandleUploadStored
  \/ ReceiveList
  \/ ShowLibraryValidate
  \/ ShowLibraryListFails
  \/ ShowLibraryListed

Spec == Init /\ [][Next]_vars

TypeOK ==
  /\ upc \in {"idle", "validate", "open", "upload", "done"}
  /\ lpc \in {"idle", "validate", "list", "done"}
  /\ Cardinality(DOMAIN store) <= MaxObjects

\* ------------------------------------------------------------- properties
Slash == <<"/">>

UploadReturned == upc = "done"

ListReturned == lpc = "done"

\* the step in which a request of handleUpload returns
UploadReturns == upc # "done" /\ upc' = "done"

\* the names of the entries of a books value
EntryNames(books) == { books.array[i].name : i \in 1..Len(books.array) }

\* the key under which an upload for an owner id is stored
OwnerKey(id, fn) == UsersPrefix \o id \o Slash \o fn

\* C1 (as stated): every upload request whose s3_path is empty or absent ends
\* with the error "Missing s3_path" and makes no call to uploader.Upload,
\* also when the file part is missing.
C1_AsStated ==
  (UploadReturned /\ s3_path = <<>>) =>
    (upResp.error = "Missing s3_path" /\ uploadCalls = 0)

\* C1 (amended): every upload request whose s3_path is empty or absent ends
\* with status 400 and no call to uploader.Upload; its error is "Missing
\* s3_path" when the file part is present and "Failed to upload file" when
\* the file part is missing, because the file part is checked first.
C1_EmptyFolderRejected ==
  (UploadReturned /\ s3_path = <<>>) =>
    /\ upResp.status = 400
    /\ upResp.fields = {"error"}
    /\ uploadCalls = 0
    /\ hasFile => upResp.error = "Missing s3_path"
    /\ ~hasFile => upResp.error = "Failed to upload file"

C1_Witness ==
  UploadReturned /\ s3_path = <<>> /\ hasFile /\ upResp.error = "Missing s3_path"

\* C2: the key passed to uploader.Upload is folder + "/" + filename when the
\* folder does not end with "/", and folder + filename when it does.
C2_KeyIsFolderSlashFilename ==
  uploadCalls > 0 =>
    /\ s3_path # <<>> /\ filename # <<>>
    /\ ~HasSuffix(s3_path, Slash) => putKey = s3_path \o Slash \o filename
    /\ HasSuffix(s3_path, Slash) => putKey = s3_path \o filename

C2_Witness ==
  /\ uploadCalls = 1 /\ ~HasSuffix(s3_path, Slash)
  /\ putKey = s3_path \o Slash \o filename
  /\ putKey \in DOMAIN store

\* C3: an upload request calls uploader.Upload at most once; when it succeeds
\* it creates or overwrites exactly the object at the computed key; when it
\* fails the bucket is unchanged and no pdf_url is returned, so every prefix
\* lists the same keys as before.
C3_OneWriteOrNone ==
  [][ /\ uploadCalls' <= 1
      /\ (UploadReturns /\ upResp'.status = 200) =>
           /\ uploadCalls' = 1
           /\ store' = PutObject(store, BuildKey(s3Folder, filename), content)
           /\ \A k \in DOMAIN store' : k # putKey' => (k \in DOMAIN store /\ store'[k] = store[k])
      /\ (UploadReturns /\ upResp'.status # 200) =>
           /\ store' = store
           /\ "pdf_url" \notin upResp'.fields
           /\ upResp'.pdf_url = <<>>
           /\ \A id \in OwnerIds :
                Matching(store', BuildListPrefix(id)) = Matching(store, BuildListPrefix(id))
      /\ store' # store => (UploadReturns /\ upResp'.status = 200)
    ]_vars

C3_Witness ==
  UploadReturned /\ upResp.status = 500 /\ uploadCalls = 1 /\ putKey \notin DOMAIN store

\* C4 (as stated): on every exit path of an upload request the input stream
\* is released exactly once.
C4_AsStated == UploadReturned => closes = 1

\* C4 (amended): the stream is released exactly once on the exit paths that
\* opened it (success and store failure) and is neither opened nor released
\* on the others (missing file, missing folder, failed open); never twice.
C4_ReleasedIffOpened ==
  /\ closes <= 1
  /\ UploadReturned =>
       /\ closes = opens
       /\ upResp.status \in {200, 500} => closes = 1
       /\ upResp.status = 400 => closes = 0

C4_Witness == UploadReturned /\ upResp.status = 200 /\ opens = 1 /\ closes = 1

\* C5: a listing request with an empty or absent userId ends with the error
\* "Missing userId" and no call to ListObjectsV2; one with a non-empty userId
\* makes exactly one call, with prefix "users/" + userId + "/".
C5_MissingOwnerOrOneCall ==
  /\ listCalls <= 1
  /\ ListReturned =>
       /\ userId = <<>> =>
            /\ lsResp.status = 400 /\ lsResp.error = "Missing userId"
            /\ listCalls = 0
       /\ userId # <<>> =>
            /\ listCalls = 1
            /\ listPrefix = UsersPrefix \o userId \o Slash

C5_Witness ==
  ListReturned /\ userId = <<"4", "2">> /\ listCalls = 1 /\ lsResp.status = 200

\* C6: when ListObjectsV2 returns N keys, books is an array of exactly N
\* entries in the returned order, entry i having name = key i, url = root +
\* key i and thumbnail = root + "thumbnails/" + key i + ".jpg".
C6_AsStated ==
  (ListReturned /\ lsResp.status = 200) =>
    /\ ~lsResp.books.null
    /\ Len(lsResp.books.array) = Len(contents)
    /\ \A i \in 1..Len(contents) :
         /\ lsResp.books.array[i].name = contents[i]
         /\ lsResp.books.array[i].url = NamespaceRoot \o contents[i]
         /\ lsResp.books.array[i].thumbnail =
              NamespaceRoot \o <<"t", "h", "u", "m", "b", "n", "a", "i", "l", "s", "/">>
                \o contents[i] \o <<".", "j", "p", "g">>

\* C7: when ListObjectsV2 returns no key, the listing succeeds and books is
\* an empty array, not null.
C7_AsStated ==
  (ListReturned /\ lsResp.status = 200 /\ contents = <<>>) =>
    (~lsResp.books.null /\ lsResp.books.array = <<>>)

\* C8: a successful upload answers pdf_url = root + the key passed to
\* uploader.Upload (so pdf_url ends with that key) and pdf_name = filename.
C8_UrlOfWrittenKey ==
  (UploadReturned /\ upResp.status = 200) =>
    /\ upResp.fields = {"pdf_url", "pdf_name"}
    /\ upResp.pdf_url = NamespaceRoot \o putKey
    /\ HasSuffix(upResp.pdf_url, putKey)
    /\ putKey \in DOMAIN store
    /\ upResp.pdf_name = filename

C8_Witness ==
  /\ UploadReturned /\ upResp.status = 200
  /\ putKey = UsersPrefix \o <<"4", "2", "/", "x">>
  /\ upResp.pdf_name = <<"x">>

\* C9 (as stated): the normalized folder ends with exactly one separator.
C9_AsStated == s3Folder # <<>> => TrailingSeparators(s3Folder) = 1

\* C9 (amended): the normalized folder ends with at least one separator: one
\* is appended when the input ends with none, and an input that already ends
\* with separators is kept as it is (so "a//" keeps its two).
C9_AtLeastOneSeparator ==
  s3Folder # <<>> =>
    /\ TrailingSeparators(s3Folder) >= 1
    /\ TrailingSeparators(s3_path) = 0 =>
         (s3Folder = s3_path \o Slash /\ TrailingSeparators(s3Folder) = 1)
    /\ TrailingSeparators(s3_path) >= 1 => s3Folder = s3_path

C9_Witness == s3_path = <<"a", "/", "/">> /\ s3Folder = <<"a", "/", "/">> /\ uploadCalls = 1

====
